---- MODULE Spec2Model ----
(***************************************************************************)
(* Model of src/src/App.jsx: the React component App, its state hooks and  *)
(* its asynchronous handlers (handleSaveKeys, handleTransformSubmission,   *)
(* handleTransformChecklist, handleRunReview).                             *)
(*                                                                         *)
(* An async handler runs in two atomic steps: from the click to the await  *)
(* of the network call (the request is issued), and from the settlement of *)
(* that call to the end of the handler (the continuation).  No state is    *)
(* read between `await fetch` and `await res.json()`, so the two awaits    *)
(* are one suspension.  JavaScript is single-threaded, so each step is     *)
(* atomic.  Strings are TLA+ strings; the JavaScript values undefined and  *)
(* null are the distinguished values UNDEFINED and NULL.                   *)
(***************************************************************************)
EXTENDS Integers, Sequences, FiniteSets, TLC

\* ------------------------------------------------------------------ bounds
\* Number of user events in a run: clicks on the four buttons (handler
\* invocations) and input edits (onChange events) together.
MaxEvents == 3

\* Number of clicks in a run of the specification with fairness.
MaxLiveCalls == 2

\* --------------------------------------------------------------- constants
MODELS == <<"gpt-4o-mini", "gpt-4.1-mini", "gemini-2.5-flash", "gemini-3-flash-preview">>

UNDEFINED == "undefined"

NULL == "null"

SubmissionURL == "/transform_submission"

ChecklistURL == "/transform_checklist"

ReviewURL == "/run_review"

KeysURL == "/set_api_keys"

StageURLs == {SubmissionURL, ChecklistURL, ReviewURL}

URLs == StageURLs \cup {KeysURL}

\* Values the user can put in the inputs, and values the service can return.
TextChoices == {"", "Hello"}

FileChoices == {NULL, "doc.pdf"}

OverrideChoices == {"", "X"}

KeyChoices == {"", "sk"}

ModelChoices == {MODELS[1], MODELS[2]}

ResultChoices == {UNDEFINED, "A", "B"}

ErrorChoices == {UNDEFINED, "boom"}

StatusChoices == {UNDEFINED, "ok"}

TransportMessage == "Failed to fetch"

\* ------------------------------------------------------------------- state
VARIABLES
  status, error,
  openaiKey, geminiKey,
  submissionText, submissionFile, submissionModel, submissionResult,
  checklistText, checklistFile, checklistModel, checklistResult,
  reviewSubmission, reviewChecklist, reviewModel, reviewResult,
  inflight,   \* the calls issued and not yet settled
  nextId,     \* identity of the next call (order of the starts)
  issued,     \* network log: number of requests sent to each URL
  invoked,    \* number of invocations of the handler of each URL
  edits,      \* number of input edits so far
  lastEvt,    \* history: the last handler step taken (start, success, failure)
  recent,     \* history: the most recently started stage action, its outcome
  writer      \* history: the call whose response last wrote each slot / error

keyVars == <<openaiKey, geminiKey>>

submissionInputs == <<submissionText, submissionFile, submissionModel>>

checklistInputs == <<checklistText, checklistFile, checklistModel>>

reviewInputs == <<reviewSubmission, reviewChecklist, reviewModel>>

inputVars == <<keyVars, submissionInputs, checklistInputs, reviewInputs, edits>>

resultVars == <<submissionResult, checklistResult, reviewResult>>

netVars == <<inflight, nextId, issued, invoked, lastEvt, recent, writer>>

vars == <<status, error, inputVars, resultVars, netVars>>

\* ------------------------------------------------------- JavaScript helpers
\* Falsy values among the ones the model uses.
Falsy(v) == v \in {"", UNDEFINED, NULL}

\* a || b
Or(a, b) == IF Falsy(a) THEN b ELSE a

\* The entries of a FormData, in order: the fields that are neither
\* undefined nor null.
buildFormData(fields) ==
  SelectSeq(fields, LAMBDA kv : kv[2] # UNDEFINED /\ kv[2] # NULL)

\* JSON.stringify of an object literal: undefined members are dropped.
JSONStringify(fields) ==
  SelectSeq(fields, LAMBDA kv : kv[2] # UNDEFINED)

Has(body, k) == \E i \in 1..Len(body) : body[i][1] = k

Get(body, k) == body[CHOOSE i \in 1..Len(body) : body[i][1] = k][2]

\* The object literals the handlers pass to buildFormData.
TransformFields(text, model, file) ==
  << <<"pasted", text>>, <<"model", model>>, <<"file", Or(file, UNDEFINED)>> >>

\* Variants of EffectiveText: the override alone, and the stored result first.
EffectiveText_OverrideOnly(override, result) == override

EffectiveText_ResultFirst(override, result) == Or(result, override)

\* reviewSubmission || submissionResult, reviewChecklist || checklistResult
EffectiveText(override, result) == Or(override, result)

ReviewFields(submission, checklist, model) ==
  << <<"submission", submission>>, <<"checklist", checklist>>, <<"model", model>> >>

KeysFields(openai, gemini) ==
  << <<"openai", Or(openai, UNDEFINED)>>, <<"gemini", Or(gemini, UNDEFINED)>> >>

\* ---------------------------------------------------------------- service
\* What a call can settle with: a rejected fetch, or a response with a
\* status (ok or not) and a JSON body.
Data(r, e, s) == [result |-> r, error |-> e, status |-> s]

Responses(url) ==
  {[rejected |-> TRUE, ok |-> FALSE, data |-> Data(UNDEFINED, UNDEFINED, UNDEFINED)]}
  \cup {[rejected |-> FALSE, ok |-> FALSE, data |-> Data(UNDEFINED, e, UNDEFINED)] :
          e \in ErrorChoices}
  \cup (IF url = KeysURL
        THEN {[rejected |-> FALSE, ok |-> TRUE, data |-> Data(UNDEFINED, UNDEFINED, s)] :
                s \in StatusChoices}
        ELSE {[rejected |-> FALSE, ok |-> TRUE, data |-> Data(r, UNDEFINED, UNDEFINED)] :
                r \in ResultChoices})

\* Variant of the generic message without the URL.
GenericMessage_NoURL(url) == "Request failed"

\* `Request failed: ${url}`
GenericMessage(url) == "Request failed: " \o url

\* postFormData after the call settled: throws with a message, or returns
\* the body.
postFormData(url, resp) ==
  IF resp.rejected
  THEN [threw |-> TRUE, message |-> TransportMessage, data |-> resp.data]
  ELSE IF ~resp.ok
       THEN [threw |-> TRUE, message |-> Or(resp.data.error, GenericMessage(url)),
             data |-> resp.data]
       ELSE [threw |-> FALSE, message |-> "", data |-> resp.data]

\* The same for the inlined fetch of handleSaveKeys.
postKeys(resp) ==
  IF resp.rejected
  THEN [threw |-> TRUE, message |-> TransportMessage, data |-> resp.data]
  ELSE IF ~resp.ok
       THEN [threw |-> TRUE, message |-> Or(resp.data.error, "Failed to save keys"),
             data |-> resp.data]
       ELSE [threw |-> FALSE, message |-> "", data |-> resp.data]

\* --------------------------------------------------------------- the calls
\* A call in flight: its identity, URL and body, and (history) the value of
\* its stage's result slot when it was started, whether a call of the same
\* URL succeeded since, and the calls of the same URL it overlapped with.
NewCall(url, body, slot) ==
  [id |-> nextId, url |-> url, body |-> body, slot0 |-> slot, over |-> FALSE,
   ovl |-> {d.id : d \in {e \in inflight : e.url = url}}]

\* Variant of fetch behind a single-flight guard: no request leaves while a
\* call to the same URL is in flight.
fetch_SingleFlight(url, body, slot) ==
  IF \E d \in inflight : d.url = url
  THEN UNCHANGED <<inflight, issued>>
  ELSE /\ inflight' = inflight \cup {NewCall(url, body, slot)}
       /\ issued' = [issued EXCEPT ![url] = @ + 1]

\* fetch(url, {method: "POST", body}): one request leaves for the URL.
fetch(url, body, slot) ==
  /\ inflight' = {IF d.url = url THEN [d EXCEPT !.ovl = @ \cup {nextId}] ELSE d :
                    d \in inflight} \cup {NewCall(url, body, slot)}
  /\ issued' = [issued EXCEPT ![url] = @ + 1]

\* No response yet (start steps).
NoResponse == [rejected |-> FALSE, ok |-> FALSE, data |-> Data(UNDEFINED, UNDEFINED, UNDEFINED)]

Event(kind, c, val, resp) ==
  [kind |-> kind, id |-> c.id, url |-> c.url, val |-> val, resp |-> resp,
   slot0 |-> c.slot0, over |-> c.over, ovl |-> c.ovl]

\* The user events so far: the clicks (one call each) and the edits.
Events == (nextId - 1) + edits

\* Bookkeeping of a start step of the handler of url.
Started(url, slot) ==
  /\ Events < MaxEvents
  /\ nextId' = nextId + 1
  /\ invoked' = [invoked EXCEPT ![url] = @ + 1]
  /\ lastEvt' = Event("start", NewCall(url, <<>>, slot), "", NoResponse)
  /\ recent' = IF url \in StageURLs
               THEN [id |-> nextId, outcome |-> "pending", later |-> FALSE]
               ELSE [recent EXCEPT !.later = (recent.id # 0)]
  /\ writer' = [writer EXCEPT !["error"] = 0]

\* Variant of Settled with a retry: a call that failed is issued again and
\* stays in flight.
Settled_RetryOnFailure(c, kind, val, resp) ==
  /\ inflight' = IF kind = "failure" THEN inflight
                 ELSE {IF d.url = c.url THEN [d EXCEPT !.over = TRUE] ELSE d :
                         d \in inflight \ {c}}
  /\ lastEvt' = Event(kind, c, val, resp)
  /\ recent' = IF recent.id = c.id
               THEN [recent EXCEPT !.outcome = IF kind = "success" THEN "ok" ELSE "failed"]
               ELSE recent
  /\ writer' = IF kind = "failure" THEN [writer EXCEPT !["error"] = c.id]
               ELSE IF c.url \in StageURLs THEN [writer EXCEPT ![c.url] = c.id]
               ELSE writer
  /\ UNCHANGED <<nextId, issued, invoked>>

\* Bookkeeping of the continuation of call c: kind is "success" or "failure",
\* val the text it wrote (result, status or message), resp what the call
\* settled with.
Settled(c, kind, val, resp) ==
  /\ inflight' = {IF d.url = c.url /\ kind = "success" THEN [d EXCEPT !.over = TRUE] ELSE d :
                    d \in inflight \ {c}}
  /\ lastEvt' = Event(kind, c, val, resp)
  /\ recent' = IF recent.id = c.id
               THEN [recent EXCEPT !.outcome = IF kind = "success" THEN "ok" ELSE "failed"]
               ELSE recent
  /\ writer' = IF kind = "failure" THEN [writer EXCEPT !["error"] = c.id]
               ELSE IF c.url \in StageURLs THEN [writer EXCEPT ![c.url] = c.id]
               ELSE writer
  /\ UNCHANGED <<nextId, issued, invoked>>

\* ------------------------------------------------------------------- Init
Init ==
  /\ status = "Idle"
  /\ error = ""
  /\ openaiKey = ""
  /\ geminiKey = ""
  /\ submissionText = ""
  /\ submissionFile = NULL
  /\ submissionModel = MODELS[1]
  /\ submissionResult = ""
  /\ checklistText = ""
  /\ checklistFile = NULL
  /\ checklistModel = MODELS[1]
  /\ checklistResult = ""
  /\ reviewSubmission = ""
  /\ reviewChecklist = ""
  /\ reviewModel = MODELS[1]
  /\ reviewResult = ""
  /\ inflight = {}
  /\ nextId = 1
  /\ issued = [u \in URLs |-> 0]
  /\ invoked = [u \in URLs |-> 0]
  /\ edits = 0
  /\ lastEvt = [kind |-> "none", id |-> 0, url |-> "", val |-> "", resp |-> NoResponse,
                slot0 |-> "", over |-> FALSE, ovl |-> {}]
  /\ recent = [id |-> 0, outcome |-> "none", later |-> FALSE]
  /\ writer = [f \in StageURLs \cup {"error"} |-> 0]

\* ------------------------------------------------------------ the handlers
\* Variants of the catch block: one that also resets the result slots, one
\* that forgets setStatus("Error"), one that returns to "Idle".
catchError_ClearsResults(message) ==
  /\ error' = message
  /\ status' = "Error"
  /\ submissionResult' = "" /\ checklistResult' = "" /\ reviewResult' = ""

catchError_KeepsStatus(message) ==
  /\ error' = message
  /\ UNCHANGED <<status, resultVars>>

catchError_Idle(message) ==
  /\ error' = message
  /\ status' = "Idle"
  /\ UNCHANGED resultVars

\* Variant of the catch block with the two texts swapped.
catchError_Swapped(message) ==
  /\ error' = "Error"
  /\ status' = message
  /\ UNCHANGED resultVars

\* The catch block of the four handlers: setError(e.message);
\* setStatus("Error").  No result slot is written.
catchError(message) ==
  /\ error' = message
  /\ status' = "Error"
  /\ UNCHANGED resultVars

\* handleSaveKeys up to the await of fetch.
handleSaveKeys ==
  /\ Started(KeysURL, "")
  /\ status' = "Saving keys"
  /\ error' = ""
  /\ fetch(KeysURL, JSONStringify(KeysFields(openaiKey, geminiKey)), "")
  /\ UNCHANGED <<inputVars, resultVars>>

\* handleSaveKeys from the settlement of its call.
handleSaveKeysResume(c, resp) ==
  /\ c \in inflight /\ c.url = KeysURL /\ resp \in Responses(KeysURL)
  /\ LET r == postKeys(resp) IN
       IF r.threw
       THEN /\ catchError(r.message)
            /\ Settled(c, "failure", r.message, resp)
       ELSE /\ status' = Or(r.data.status, "saved")
            /\ UNCHANGED <<error, resultVars>>
            /\ Settled(c, "success", Or(r.data.status, "saved"), resp)
  /\ UNCHANGED inputVars

handleTransformSubmission ==
  /\ Started(SubmissionURL, submissionResult)
  /\ status' = "Transforming submission"
  /\ error' = ""
  /\ fetch(SubmissionURL,
           buildFormData(TransformFields(submissionText, submissionModel, submissionFile)),
           submissionResult)
  /\ UNCHANGED <<inputVars, resultVars>>

\* Variant of the continuation that drops the response of a call when a call
\* of the same stage was started after it.
handleTransformSubmissionResume_LatestOnly(c, resp) ==
  /\ c \in inflight /\ c.url = SubmissionURL /\ resp \in Responses(SubmissionURL)
  /\ LET r == postFormData(SubmissionURL, resp) IN
       IF \E i \in c.ovl : i > c.id
       THEN /\ UNCHANGED <<status, error, resultVars>>
            /\ Settled(c, IF r.threw THEN "failure" ELSE "success",
                        IF r.threw THEN r.message ELSE Or(r.data.result, ""), resp)
       ELSE IF r.threw
       THEN /\ catchError(r.message)
            /\ Settled(c, "failure", r.message, resp)
       ELSE /\ submissionResult' = Or(r.data.result, "")
            /\ status' = "Idle"
            /\ UNCHANGED <<error, checklistResult, reviewResult>>
            /\ Settled(c, "success", Or(r.data.result, ""), resp)
  /\ UNCHANGED inputVars

handleTransformSubmissionResume(c, resp) ==
  /\ c \in inflight /\ c.url = SubmissionURL /\ resp \in Responses(SubmissionURL)
  /\ LET r == postFormData(SubmissionURL, resp) IN
       IF r.threw
       THEN /\ catchError(r.message)
            /\ Settled(c, "failure", r.message, resp)
       ELSE /\ submissionResult' = Or(r.data.result, "")
            /\ status' = "Idle"
            /\ UNCHANGED <<error, checklistResult, reviewResult>>
            /\ Settled(c, "success", Or(r.data.result, ""), resp)
  /\ UNCHANGED inputVars

\* Variant of the start step that does not announce the stage in status.
handleTransformChecklist_NoStatus ==
  /\ Started(ChecklistURL, checklistResult)
  /\ error' = ""
  /\ fetch(ChecklistURL,
           buildFormData(TransformFields(checklistText, checklistModel, checklistFile)),
           checklistResult)
  /\ UNCHANGED <<status, inputVars, resultVars>>

\* Variant of the start step that refuses to run while status is Error.
handleTransformChecklist_BlockedByError ==
  /\ status # "Error"
  /\ Started(ChecklistURL, checklistResult)
  /\ status' = "Transforming checklist"
  /\ error' = ""
  /\ fetch(ChecklistURL,
           buildFormData(TransformFields(checklistText, checklistModel, checklistFile)),
           checklistResult)
  /\ UNCHANGED <<inputVars, resultVars>>

handleTransformChecklist ==
  /\ Started(ChecklistURL, checklistResult)
  /\ status' = "Transforming checklist"
  /\ error' = ""
  /\ fetch(ChecklistURL,
           buildFormData(TransformFields(checklistText, checklistModel, checklistFile)),
           checklistResult)
  /\ UNCHANGED <<inputVars, resultVars>>

\* Variant of the continuation that stores the result in the submission slot.
handleTransformChecklistResume_WritesSubmission(c, resp) ==
  /\ c \in inflight /\ c.url = ChecklistURL /\ resp \in Responses(ChecklistURL)
  /\ LET r == postFormData(ChecklistURL, resp) IN
       IF r.threw
       THEN /\ catchError(r.message)
            /\ Settled(c, "failure", r.message, resp)
       ELSE /\ submissionResult' = Or(r.data.result, "")
            /\ status' = "Idle"
            /\ UNCHANGED <<error, checklistResult, reviewResult>>
            /\ Settled(c, "success", Or(r.data.result, ""), resp)
  /\ UNCHANGED inputVars

handleTransformChecklistResume(c, resp) ==
  /\ c \in inflight /\ c.url = ChecklistURL /\ resp \in Responses(ChecklistURL)
  /\ LET r == postFormData(ChecklistURL, resp) IN
       IF r.threw
       THEN /\ catchError(r.message)
            /\ Settled(c, "failure", r.message, resp)
       ELSE /\ checklistResult' = Or(r.data.result, "")
            /\ status' = "Idle"
            /\ UNCHANGED <<error, submissionResult, reviewResult>>
            /\ Settled(c, "success", Or(r.data.result, ""), resp)
  /\ UNCHANGED inputVars

\* Variant of the start step that does not clear the error.
handleRunReview_KeepsError ==
  /\ Started(ReviewURL, reviewResult)
  /\ status' = "Running review"
  /\ LET submission == EffectiveText(reviewSubmission, submissionResult)
         checklist == EffectiveText(reviewChecklist, checklistResult)
     IN fetch(ReviewURL, buildFormData(ReviewFields(submission, checklist, reviewModel)),
              reviewResult)
  /\ UNCHANGED <<error, inputVars, resultVars>>

handleRunReview ==
  /\ Started(ReviewURL, reviewResult)
  /\ status' = "Running review"
  /\ error' = ""
  /\ LET submission == EffectiveText(reviewSubmission, submissionResult)
         checklist == EffectiveText(reviewChecklist, checklistResult)
     IN fetch(ReviewURL, buildFormData(ReviewFields(submission, checklist, reviewModel)),
              reviewResult)
  /\ UNCHANGED <<inputVars, resultVars>>

handleRunReviewResume(c, resp) ==
  /\ c \in inflight /\ c.url = ReviewURL /\ resp \in Responses(ReviewURL)
  /\ LET r == postFormData(ReviewURL, resp) IN
       IF r.threw
       THEN /\ catchError(r.message)
            /\ Settled(c, "failure", r.message, resp)
       ELSE /\ reviewResult' = Or(r.data.result, "")
            /\ status' = "Idle"
            /\ UNCHANGED <<error, submissionResult, checklistResult>>
            /\ Settled(c, "success", Or(r.data.result, ""), resp)
  /\ UNCHANGED inputVars

\* ---------------------------------------------------------- the input edits
\* An onChange event: the input takes a value other than the one it has.
Edited ==
  /\ Events < MaxEvents
  /\ edits' = edits + 1
  /\ UNCHANGED <<status, error, resultVars, netVars>>

setOpenaiKey(v) ==
  /\ Edited /\ v # openaiKey /\ openaiKey' = v
  /\ UNCHANGED <<geminiKey, submissionInputs, checklistInputs, reviewInputs>>

setGeminiKey(v) ==
  /\ Edited /\ v # geminiKey /\ geminiKey' = v
  /\ UNCHANGED <<openaiKey, submissionInputs, checklistInputs, reviewInputs>>

setSubmissionText(v) ==
  /\ Edited /\ v # submissionText /\ submissionText' = v
  /\ UNCHANGED <<keyVars, submissionFile, submissionModel, checklistInputs, reviewInputs>>

setSubmissionFile(v) ==
  /\ Edited /\ Or(v, NULL) # submissionFile /\ submissionFile' = Or(v, NULL)
  /\ UNCHANGED <<keyVars, submissionText, submissionModel, checklistInputs, reviewInputs>>

setSubmissionModel(v) ==
  /\ Edited /\ v # submissionModel /\ submissionModel' = v
  /\ UNCHANGED <<keyVars, submissionText, submissionFile, checklistInputs, reviewInputs>>

setChecklistText(v) ==
  /\ Edited /\ v # checklistText /\ checklistText' = v
  /\ UNCHANGED <<keyVars, submissionInputs, checklistFile, checklistModel, reviewInputs>>

setChecklistFile(v) ==
  /\ Edited /\ Or(v, NULL) # checklistFile /\ checklistFile' = Or(v, NULL)
  /\ UNCHANGED <<keyVars, submissionInputs, checklistText, checklistModel, reviewInputs>>

setChecklistModel(v) ==
  /\ Edited /\ v # checklistModel /\ checklistModel' = v
  /\ UNCHANGED <<keyVars, submissionInputs, checklistText, checklistFile, reviewInputs>>

\* Variant of the edit in which the requests in flight share the live
\* override: the edit rewrites the submission field of every review request
\* that has not settled.
setReviewSubmission_Live(v) ==
  /\ Events < MaxEvents /\ v # reviewSubmission
  /\ edits' = edits + 1
  /\ reviewSubmission' = v
  /\ inflight' = {IF c.url = ReviewURL
                  THEN [c EXCEPT !.body = [i \in 1..Len(c.body) |->
                                            IF c.body[i][1] = "submission"
                                            THEN <<"submission", EffectiveText(v, submissionResult)>>
                                            ELSE c.body[i]]]
                  ELSE c : c \in inflight}
  /\ UNCHANGED <<status, error, resultVars, nextId, issued, invoked, lastEvt, recent, writer>>
  /\ UNCHANGED <<keyVars, submissionInputs, checklistInputs, reviewChecklist, reviewModel>>

setReviewSubmission(v) ==
  /\ Edited /\ v # reviewSubmission /\ reviewSubmission' = v
  /\ UNCHANGED <<keyVars, submissionInputs, checklistInputs, reviewChecklist, reviewModel>>

setReviewChecklist(v) ==
  /\ Edited /\ v # reviewChecklist /\ reviewChecklist' = v
  /\ UNCHANGED <<keyVars, submissionInputs, checklistInputs, reviewSubmission, reviewModel>>

setReviewModel(v) ==
  /\ Edited /\ v # reviewModel /\ reviewModel' = v
  /\ UNCHANGED <<keyVars, submissionInputs, checklistInputs, reviewSubmission, reviewChecklist>>

\* ------------------------------------------------------------------- Next
Next ==
  \/ handleSaveKeys
  \/ \E c \in inflight, resp \in Responses(KeysURL) : handleSaveKeysResume(c, resp)
  \/ handleTransformSubmission
  \/ \E c \in inflight, resp \in Responses(SubmissionURL) : handleTransformSubmissionResume(c, resp)
  \/ handleTransformChecklist
  \/ \E c \in inflight, resp \in Responses(ChecklistURL) : handleTransformChecklistResume(c, resp)
  \/ handleRunReview
  \/ \E c \in inflight, resp \in Responses(ReviewURL) : handleRunReviewResume(c, resp)
  \/ \E v \in KeyChoices : setOpenaiKey(v)
  \/ \E v \in KeyChoices : setGeminiKey(v)
  \/ \E v \in TextChoices : setSubmissionText(v)
  \/ \E v \in FileChoices : setSubmissionFile(v)
  \/ \E v \in ModelChoices : setSubmissionModel(v)
  \/ \E v \in TextChoices : setChecklistText(v)
  \/ \E v \in FileChoices : setChecklistFile(v)
  \/ \E v \in ModelChoices : setChecklistModel(v)
  \/ \E v \in OverrideChoices : setReviewSubmission(v)
  \/ \E v \in OverrideChoices : setReviewChecklist(v)
  \/ \E v \in ModelChoices : setReviewModel(v)

Spec == Init /\ [][Next]_vars

\* ============================================================== properties
Slot(url) ==
  CASE url = SubmissionURL -> submissionResult
    [] url = ChecklistURL -> checklistResult
    [] url = ReviewURL -> reviewResult
    [] OTHER -> ""

\* The call issued by the last start step.
NewestCall == CHOOSE c \in inflight : c.id = lastEvt.id

\* The step is a start step of the handler of url.
StartStep(url) == nextId' # nextId /\ lastEvt'.url = url

\* The step is the continuation of a call of url, of the given kind.
SettleStep(url, kind) ==
  lastEvt' # lastEvt /\ lastEvt'.kind = kind /\ lastEvt'.url = url

\* The body a transform request must have under the file-precedence rule.
FilePrecedence(body, text, file) ==
  IF file # NULL
  THEN /\ Has(body, "file") /\ Get(body, "file") = file
       /\ Has(body, "pasted") => Get(body, "pasted") = ""
  ELSE Has(body, "pasted") /\ Get(body, "pasted") = text /\ ~Has(body, "file")

\* C1: a transform request (submission or checklist) started with a file
\* attached carries the file and no pasted text (at most an empty pasted
\* field); started without a file it carries the pasted text and no file.
C1_FilePrecedence ==
  [][ /\ StartStep(SubmissionURL) =>
          FilePrecedence(NewestCall'.body, submissionText, submissionFile)
      /\ StartStep(ChecklistURL) =>
          FilePrecedence(NewestCall'.body, checklistText, checklistFile) ]_vars

\* C2: a review started with an empty override field carries, for that field,
\* the current value of the stage's result slot; the field is present, and it
\* is the empty string when no call of that stage has succeeded.
C2_ReviewFallback ==
  [][ StartStep(ReviewURL) =>
        LET body == NewestCall'.body IN
          /\ reviewSubmission = "" =>
                /\ Has(body, "submission")
                /\ Get(body, "submission") = submissionResult
                /\ writer[SubmissionURL] = 0 => Get(body, "submission") = ""
          /\ reviewChecklist = "" =>
                /\ Has(body, "checklist")
                /\ Get(body, "checklist") = checklistResult
                /\ writer[ChecklistURL] = 0 => Get(body, "checklist") = "" ]_vars

\* A review request is in flight, just started with an empty submission
\* override, and carries the result "A" of an earlier submission transform.
C2_Witness ==
  /\ lastEvt.kind = "start" /\ lastEvt.url = ReviewURL
  /\ reviewSubmission = "" /\ submissionResult = "A"
  /\ \E c \in inflight : c.id = lastEvt.id /\ Get(c.body, "submission") = "A"

\* C3: a review started with a non-empty override field carries exactly that
\* override for the field, whatever the result slot holds, each field on its
\* own.
C3_ReviewOverride ==
  [][ StartStep(ReviewURL) =>
        LET body == NewestCall'.body IN
          /\ reviewSubmission # "" =>
                Has(body, "submission") /\ Get(body, "submission") = reviewSubmission
          /\ reviewChecklist # "" =>
                Has(body, "checklist") /\ Get(body, "checklist") = reviewChecklist ]_vars

\* A review request just started with the submission override "X" while the
\* slot holds "A" and the checklist override is empty: it carries "X" and the
\* checklist slot.
C3_Witness ==
  /\ lastEvt.kind = "start" /\ lastEvt.url = ReviewURL
  /\ reviewSubmission = "X" /\ submissionResult = "A" /\ reviewChecklist = ""
  /\ \E c \in inflight :
        /\ c.id = lastEvt.id
        /\ Get(c.body, "submission") = "X"
        /\ Get(c.body, "checklist") = checklistResult

\* C4: after N invocations of a stage action exactly N requests have been
\* sent to its endpoint, in every state.
C4_OneCallPerInvocation ==
  \A u \in StageURLs : issued[u] = invoked[u]

\* The submission transform was invoked twice, the second time while the
\* first call was in flight, and two requests were sent.
C4_Witness ==
  /\ invoked[SubmissionURL] = 2 /\ issued[SubmissionURL] = 2
  /\ Cardinality({c \in inflight : c.url = SubmissionURL}) = 2

\* C5 as stated: once the failure of a stage call has been handled, the
\* stage's result slot holds the value it had before the call was started.
C5_Original ==
  (lastEvt.kind = "failure" /\ lastEvt.url \in StageURLs) =>
    Slot(lastEvt.url) = lastEvt.slot0

\* C5 amended: handling the failure of a stage call changes no result slot,
\* and the stage's slot holds the value it had before the call was started
\* unless another call of the same stage succeeded while it was in flight.
C5_FailureKeepsSlot ==
  [][ \A u \in StageURLs :
        SettleStep(u, "failure") =>
          /\ resultVars' = resultVars
          /\ ~lastEvt'.over => Slot(u) = lastEvt'.slot0 ]_vars

\* A submission call failed after a first one had succeeded with "A": the
\* slot still holds "A".
C5_Witness ==
  /\ lastEvt.kind = "failure" /\ lastEvt.url = SubmissionURL
  /\ ~lastEvt.over /\ lastEvt.slot0 = "A" /\ submissionResult = "A"

\* C6: a step that changes a result slot is the successful completion of a
\* call of that slot's stage.
C6_SlotWrittenByOwnSuccess ==
  [][ /\ submissionResult' # submissionResult => SettleStep(SubmissionURL, "success")
      /\ checklistResult' # checklistResult => SettleStep(ChecklistURL, "success")
      /\ reviewResult' # reviewResult => SettleStep(ReviewURL, "success") ]_vars

\* A checklist call has just succeeded with "B" and only the checklist slot
\* was written.
C6_Witness ==
  /\ lastEvt.kind = "success" /\ lastEvt.url = ChecklistURL /\ lastEvt.val = "B"
  /\ lastEvt.slot0 = "" /\ checklistResult = "B" /\ submissionResult = ""

\* C7 as stated: status is Error exactly when the most recently started stage
\* action has failed and no action has been started since.
C7_Original ==
  (status = "Error") <=> (recent.outcome = "failed" /\ ~recent.later)

\* C7 amended: status is Error exactly when the last handler step (start or
\* completion of a stage action or of save-keys) was the handling of a
\* failure.
C7_ErrorIffLastStepFailed ==
  (status = "Error") <=> (lastEvt.kind = "failure")

\* Status is Error after a call failed while a later-started stage call is
\* still in flight.
C7_Witness ==
  /\ status = "Error" /\ lastEvt.kind = "failure"
  /\ recent.outcome = "pending" /\ inflight # {}

\* C8 as stated: while a stage call is in flight, status is the running
\* status of a stage that has a call in flight.
C8_Original ==
  (\E c \in inflight : c.url \in StageURLs) =>
    \/ status = "Transforming submission" /\ \E c \in inflight : c.url = SubmissionURL
    \/ status = "Transforming checklist" /\ \E c \in inflight : c.url = ChecklistURL
    \/ status = "Running review" /\ \E c \in inflight : c.url = ReviewURL

\* C8 amended: while a stage call is in flight and no handler step was taken
\* since it was issued, status is the running status of its stage.
C8_RunningUntilNextStep ==
  \A c \in inflight :
    (lastEvt.kind = "start" /\ lastEvt.id = c.id) =>
      /\ c.url = SubmissionURL => status = "Transforming submission"
      /\ c.url = ChecklistURL => status = "Transforming checklist"
      /\ c.url = ReviewURL => status = "Running review"

\* A checklist call was started while a submission call is in flight.
C8_Witness ==
  /\ lastEvt.kind = "start" /\ lastEvt.url = ChecklistURL
  /\ status = "Transforming checklist"
  /\ \E c \in inflight : c.url = SubmissionURL
  /\ \E c \in inflight : c.id = lastEvt.id

\* C9: a step that takes status from a non-Idle value to Idle is the
\* successful completion of a call.
C9_IdleOnlyOnSuccess ==
  [][ (status # "Idle" /\ status' = "Idle") =>
        (lastEvt' # lastEvt /\ lastEvt'.kind = "success") ]_vars

\* Status has gone from Error to Idle: of two overlapping calls the first
\* failed, then the second succeeded.
C9_Witness ==
  /\ status = "Idle" /\ lastEvt.kind = "success" /\ lastEvt.id = 2
  /\ writer["error"] = 1 /\ nextId = 3 /\ inflight = {}

\* Both of two overlapping calls of a stage have settled, the last of them
\* in the last handler step.
BothSettled(url) ==
  /\ lastEvt.kind \in {"success", "failure"} /\ lastEvt.url = url
  /\ lastEvt.ovl # {}
  /\ \A c \in inflight : c.url # url

\* C10 as stated: once both calls have settled, the slot and lastError, where
\* a response of the two wrote them, were written by the one that arrived
\* last.
C10_Original ==
  \A u \in StageURLs :
    BothSettled(u) => writer[u] \notin lastEvt.ovl /\ writer["error"] \notin lastEvt.ovl

\* C10 amended: once both calls have settled, status is the one written by
\* the response that arrived last, and so is the field that response writes
\* (the slot on success, lastError on failure); the message of an earlier
\* failure stays in lastError when the last response is a success.
C10_LastArrivalWins ==
  \A u \in StageURLs :
    BothSettled(u) =>
      /\ lastEvt.kind = "success" =>
            /\ Slot(u) = lastEvt.val /\ status = "Idle"
            /\ writer["error"] \in lastEvt.ovl => error # ""
      /\ lastEvt.kind = "failure" =>
            status = "Error" /\ error = lastEvt.val

\* Two submission calls overlapped; the second-started succeeded with "B",
\* then the first-started with "A": the slot holds "A".
C10_Witness ==
  /\ BothSettled(SubmissionURL) /\ lastEvt.kind = "success" /\ lastEvt.id = 1
  /\ lastEvt.val = "A" /\ submissionResult = "A" /\ writer[SubmissionURL] = 1

\* The step is the success of the first-started of two overlapping
\* submission calls, right after the success of the second-started one.
FirstResolvesAfterSecond ==
  /\ lastEvt.kind = "success" /\ lastEvt.url = SubmissionURL
  /\ SettleStep(SubmissionURL, "success")
  /\ lastEvt'.id < lastEvt.id /\ lastEvt.id \in lastEvt'.ovl

\* C11 as stated: when the first-started of two concurrent submission calls
\* resolves after the second-started and both succeed, submissionResult ends
\* as the result of the second-started call.
C11_Original ==
  [][ FirstResolvesAfterSecond => submissionResult' = lastEvt.val ]_vars

\* C11 amended: in that case submissionResult ends as the result of the
\* first-started call, whose response arrived last, and not as that of the
\* second-started call when the two results differ.
C11_FirstStartedWins ==
  [][ FirstResolvesAfterSecond =>
        /\ submissionResult' = lastEvt'.val
        /\ lastEvt'.val # lastEvt.val => submissionResult' # lastEvt.val ]_vars

\* Of two overlapping submission calls the second-started succeeded first,
\* then the first-started succeeded with "B", which the slot holds.
C11_Witness ==
  /\ lastEvt.kind = "success" /\ lastEvt.url = SubmissionURL /\ lastEvt.id = 1
  /\ lastEvt.ovl = {2} /\ lastEvt.over /\ nextId = 3 /\ inflight = {}
  /\ lastEvt.val = "B" /\ submissionResult = "B"

\* The step is the success of a call of url2 right after the success of a
\* call of url1 that was in flight together with it.
SecondOfTwoSucceeds(url1, url2) ==
  /\ lastEvt.kind = "success" /\ lastEvt.url = url1
  /\ SettleStep(url2, "success")

\* C12: when a submission call and a checklist call are in flight together
\* and both succeed, in either order of starts and of arrivals,
\* submissionResult ends as the submission call's result and checklistResult
\* as the checklist call's result.
C12_DisjointSlots ==
  [][ /\ SecondOfTwoSucceeds(SubmissionURL, ChecklistURL) =>
          submissionResult' = lastEvt.val /\ checklistResult' = lastEvt'.val
      /\ SecondOfTwoSucceeds(ChecklistURL, SubmissionURL) =>
          checklistResult' = lastEvt.val /\ submissionResult' = lastEvt'.val ]_vars

\* The checklist call was started first and arrived last, with "B"; the
\* submission call, started second, had succeeded with "A".
C12_Witness ==
  /\ lastEvt.kind = "success" /\ lastEvt.url = ChecklistURL /\ lastEvt.id = 1
  /\ writer[SubmissionURL] = 2 /\ nextId = 3 /\ inflight = {}
  /\ lastEvt.val = "B" /\ checklistResult = "B" /\ submissionResult = "A"

\* C13: handling a failed stage call of any of the three kinds sets status to
\* Error and lastError to the failure's message: the transport error's
\* message for a rejected fetch, the service's message when the body has
\* one, and otherwise the generic message ending with the endpoint path.
C13_FailureSurfaced ==
  [][ \A u \in StageURLs :
        SettleStep(u, "failure") =>
          LET resp == lastEvt'.resp IN
            /\ status' = "Error"
            /\ resp.rejected => error' = "Failed to fetch"
            /\ (~resp.rejected /\ resp.data.error = "boom") => error' = "boom"
            /\ (~resp.rejected /\ resp.data.error = UNDEFINED) =>
                 error' = "Request failed: " \o u ]_vars

\* A submission call got a non-success status with an empty body: lastError
\* is the generic message with the endpoint path.
C13_Witness ==
  /\ lastEvt.kind = "failure" /\ lastEvt.url = SubmissionURL
  /\ ~lastEvt.resp.rejected /\ lastEvt.resp.data.error = UNDEFINED
  /\ status = "Error" /\ error = "Request failed: /transform_submission"

\* The result slot of url after the step.
SlotAfter(url) ==
  CASE url = SubmissionURL -> submissionResult'
    [] url = ChecklistURL -> checklistResult'
    [] url = ReviewURL -> reviewResult'
    [] OTHER -> ""

\* The running status of each stage.
RunningText(url) ==
  CASE url = SubmissionURL -> "Transforming submission"
    [] url = ChecklistURL -> "Transforming checklist"
    [] url = ReviewURL -> "Running review"
    [] OTHER -> ""

Issues(url) == issued'[url] = issued[url] + 1 /\ \E c \in inflight' : c.id = nextId /\ c.url = url

\* The review request just issued has both text fields present and empty.
EmptyReviewIssued ==
  \E c \in inflight' :
    /\ c.id = nextId /\ c.url = ReviewURL
    /\ Has(c.body, "submission") /\ Get(c.body, "submission") = ""
    /\ Has(c.body, "checklist") /\ Get(c.body, "checklist") = ""

\* C15: in every state, whatever the status and the calls in flight, each of
\* the three stage actions can be started and issues its call (as long as
\* the run has user events left); a review with empty overrides and empty
\* result slots issues its call with empty fields.
C15_NeverBlocked ==
  Events < MaxEvents =>
    /\ ENABLED (handleTransformSubmission /\ Issues(SubmissionURL))
    /\ ENABLED (handleTransformChecklist /\ Issues(ChecklistURL))
    /\ ENABLED (handleRunReview /\ Issues(ReviewURL))
    /\ (/\ reviewSubmission = "" /\ reviewChecklist = ""
        /\ submissionResult = "" /\ checklistResult = "") =>
         ENABLED (handleRunReview /\ EmptyReviewIssued)

\* A checklist call has been started, while a review call is in flight,
\* after the only submission call had failed.
C15_Witness ==
  /\ lastEvt.kind = "start" /\ lastEvt.url = ChecklistURL /\ lastEvt.id = 3
  /\ issued[SubmissionURL] = 1 /\ writer[SubmissionURL] = 0
  /\ \A c \in inflight : c.url # SubmissionURL
  /\ \E c \in inflight : c.url = ReviewURL /\ Get(c.body, "submission") = ""
  /\ \E c \in inflight : c.url = ChecklistURL

\* ------------------------------------------------------------- liveness
\* The continuation of the call with identity i.
SettleCall(i) ==
  \E c \in inflight :
    /\ c.id = i
    /\ \/ \E resp \in Responses(KeysURL) : handleSaveKeysResume(c, resp)
       \/ \E resp \in Responses(SubmissionURL) : handleTransformSubmissionResume(c, resp)
       \/ \E resp \in Responses(ChecklistURL) : handleTransformChecklistResume(c, resp)
       \/ \E resp \in Responses(ReviewURL) : handleRunReviewResume(c, resp)

\* The handler steps alone, for at most MaxLiveCalls clicks: the clicks and
\* the continuations, the inputs staying as they are.
NextCalls ==
  \/ nextId <= MaxLiveCalls /\ handleSaveKeys
  \/ nextId <= MaxLiveCalls /\ handleTransformSubmission
  \/ nextId <= MaxLiveCalls /\ handleTransformChecklist
  \/ nextId <= MaxLiveCalls /\ handleRunReview
  \/ \E i \in 1..MaxLiveCalls : SettleCall(i)

\* Every issued request eventually receives a response or a transport
\* failure.
FairSpec ==
  Init /\ [][NextCalls]_vars /\ \A i \in 1..MaxLiveCalls : WF_vars(SettleCall(i))

InFlight(i) == \E c \in inflight : c.id = i

StageCallInFlight(i) == \E c \in inflight : c.id = i /\ c.url \in StageURLs

\* C16: every started stage action eventually takes its completion step and
\* is then never in flight again: it completes or fails once.
C16_SettlesOnce ==
  \A i \in 1..MaxLiveCalls : StageCallInFlight(i) ~> [](~InFlight(i))

\* The second of two stage calls has completed while the first is still in
\* flight.
C16_Witness ==
  /\ lastEvt.kind \in {"success", "failure"} /\ lastEvt.id = 2
  /\ lastEvt.url \in StageURLs /\ StageCallInFlight(1) /\ ~InFlight(2)

\* The statuses of the pipeline: Idle, the three running statuses, Error.
PipelineStatuses ==
  {"Idle", "Transforming submission", "Transforming checklist", "Running review", "Error"}

\* C17 as stated: after any sequence of the stage actions and save-keys,
\* status is Idle, a running status of a stage, or Error.
C17_Original == status \in PipelineStatuses

\* C17 amended: status is one of those five as long as save-keys has not
\* been invoked; save-keys also writes "Saving keys" when started and, on
\* success, the status text of the key service or "saved" when there is none.
C17_StatusValues ==
  /\ invoked[KeysURL] = 0 => status \in PipelineStatuses
  /\ status \in PipelineStatuses \cup {"Saving keys", "saved"} \cup (StatusChoices \ {UNDEFINED})
  /\ status \notin PipelineStatuses =>
       \/ lastEvt.kind = "start" /\ lastEvt.url = KeysURL /\ status = "Saving keys"
       \/ lastEvt.kind = "success" /\ lastEvt.url = KeysURL /\ status = lastEvt.val

\* Save-keys has succeeded without a status text in the body, after a stage
\* call was started: status is "saved".
C17_Witness ==
  /\ status = "saved" /\ lastEvt.kind = "success" /\ lastEvt.url = KeysURL
  /\ lastEvt.resp.data.status = UNDEFINED /\ \E u \in StageURLs : invoked[u] > 0

\* C18 as stated: if status is Idle then lastError is empty.
C18_Original == status = "Idle" => error = ""

\* C18 amended: if status is Idle then lastError is empty unless a call has
\* failed since the most recent action was started, the failure being
\* followed by the success of another call that was in flight; lastError
\* then still holds the message of that failure.
C18_IdleErrorOnlyStale ==
  status = "Idle" =>
    /\ writer["error"] = 0 <=> error = ""
    /\ error # "" => lastEvt.kind = "success" /\ writer["error"] # lastEvt.id

\* The first of two overlapping calls failed, then the second succeeded:
\* status is Idle and lastError holds the first call's message.
C18_Witness ==
  /\ status = "Idle" /\ error = "boom" /\ writer["error"] = 1
  /\ lastEvt.kind = "success" /\ lastEvt.id = 2 /\ nextId = 3

\* C19: if status is the running status of a stage then a call of that
\* stage is in flight.
C19_RunningHasCall ==
  /\ status = "Transforming submission" => \E c \in inflight : c.url = SubmissionURL
  /\ status = "Transforming checklist" => \E c \in inflight : c.url = ChecklistURL
  /\ status = "Running review" => \E c \in inflight : c.url = ReviewURL

\* Status is "Running review" with a review call and a submission call in
\* flight, the review started last.
C19_Witness ==
  /\ status = "Running review" /\ lastEvt.url = ReviewURL
  /\ \E c \in inflight : c.url = ReviewURL /\ c.id = 2
  /\ \E c \in inflight : c.url = SubmissionURL /\ c.id = 1

\* C20: the payload of a review call is fixed when it is started: no later
\* step (a transform succeeding, an edit of an override) changes the fields
\* of a review request in flight, and the reviewResult its success writes is
\* the result text of its own response.
C20_ReviewPayloadFixed ==
  [][ /\ \A c \in inflight : \A d \in inflight' :
           (c.id = d.id /\ c.url = ReviewURL) => d.url = c.url /\ d.body = c.body
      /\ SettleStep(ReviewURL, "success") =>
           reviewResult' = (IF lastEvt'.resp.data.result = UNDEFINED THEN ""
                            ELSE lastEvt'.resp.data.result) ]_vars

\* A review request started with an empty override and an empty submission
\* slot is in flight; since then the submission transform has succeeded with
\* "A" and the override was edited to "X": the request still carries "".
C20_Witness ==
  /\ submissionResult = "A" /\ reviewSubmission = "X"
  /\ \E c \in inflight :
       /\ c.url = ReviewURL /\ c.id = 2
       /\ Get(c.body, "submission") = ""

====
